---------------------------- MODULE Spec2Model ----------------------------
(***************************************************************************)
(* Model of simplenote2enex.py: the SimpleNoteToEnex converter.            *)
(*                                                                         *)
(* Python values are represented as follows.                               *)
(*   - a str is a sequence of one-character strings ("ab" is <<"a","b">>); *)
(*   - an optional value is None (the empty tuple) or Some(x) (<<x>>);     *)
(*   - a dict is a function whose DOMAIN is its set of keys, so that       *)
(*     'tags' in sn_note is "tags" \in DOMAIN sn_note;                     *)
(*   - a list is a sequence.                                               *)
(* An ENEX note block and the ENEX document are records holding the parts  *)
(* that the fixed f-string templates embed, in the templates' order.       *)
(***************************************************************************)
EXTENDS Integers, Sequences, FiniteSets, TLC

VARIABLES
    self,       \* the SimpleNoteToEnex object built by __init__
    file,       \* what open(self.json_file) / json.load delivers
    pc,         \* position of main(): start, loop, return, print, done, failed
    loc,        \* locals of process_file: idx, nconv, number_to_be_converted, enex_text
    stdout,     \* what print() wrote to the primary output
    trace,      \* observation: one entry per loop iteration, in order
    steps,      \* observation: the number of steps main() has taken
    call        \* a single call of a pure method, in the method-level specifications

vars == <<self, file, pc, loc, stdout, trace, steps, call>>

---------------------------------------------------------------------------
(* Bounds of the model.                                                    *)

MaxNotes == 3        \* longest activeNotes list of a run
MaxCap == 2          \* largest --number given to a run
MaxFilterLen == 3    \* longest --tag-filter string of a filter call
MaxTags == 2         \* longest tags list of a filter call
MaxContentLen == 5   \* longest content string of a cleanup call

---------------------------------------------------------------------------
(* Python values.                                                          *)

None == <<>>
Some(x) == <<x>>

Range(s) == {s[i] : i \in 1..Len(s)}

Min(a, b) == IF a < b THEN a ELSE b

SeqsUpTo(S, n) == UNION {[1..k -> S] : k \in 0..n}

\* sys.maxsize, with the value it has on a 32-bit build (2^31 - 1); it is
\* only ever an argument of min() against a list length.
SysMaxsize == 2147483647

\* str.strip() removes these characters (those of them the model uses).
Whitespace == {" ", "\t", "\n", "\r"}

\* s.startswith(p) / s.endswith(p)
StartsWith(s, p) == Len(p) <= Len(s) /\ SubSeq(s, 1, Len(p)) = p
EndsWith(s, p) == Len(p) <= Len(s) /\ SubSeq(s, Len(s) - Len(p) + 1, Len(s)) = p

\* s.find(p) + 1: the first position at which p occurs in s, 0 when it does not
Find(s, p) ==
    LET hits == {i \in 1..(Len(s) - Len(p) + 1) : SubSeq(s, i, i + Len(p) - 1) = p}
    IN  IF hits = {} THEN 0 ELSE CHOOSE i \in hits : \A j \in hits : i <= j

\* s.split(sep): every piece between occurrences of sep, empty pieces kept
RECURSIVE Split(_, _)
Split(s, sep) ==
    LET i == Find(s, sep)
    IN  IF i = 0 THEN <<s>>
        ELSE <<SubSeq(s, 1, i - 1)>> \o Split(SubSeq(s, i + Len(sep), Len(s)), sep)

\* s.split(sep, 1)[0]: the part of s before the first occurrence of sep
SplitFirst(s, sep) ==
    LET i == Find(s, sep)
    IN  IF i = 0 THEN s ELSE SubSeq(s, 1, i - 1)

\* s.replace(c, ''), for a one-character c
Remove(s, c) == SelectSeq(s, LAMBDA x : x # c)

\* s.lstrip() / s.rstrip() / s.strip()
RECURSIVE LStrip(_)
LStrip(s) == IF s # <<>> /\ Head(s) \in Whitespace THEN LStrip(Tail(s)) ELSE s

RECURSIVE RStrip(_)
RStrip(s) ==
    IF s # <<>> /\ s[Len(s)] \in Whitespace THEN RStrip(SubSeq(s, 1, Len(s) - 1)) ELSE s

Strip(s) == RStrip(LStrip(s))

---------------------------------------------------------------------------
(* SimpleNoteToEnex.__init__                                               *)

LineSep == <<"\r", "\n">>

\* datetime.now().strftime(...): the wall-clock time of construction
ExportTimes == {<<"2","0","2","6","1","1","0","1","1","2","0","0","0","0","Z">>}

\* args: the constructor's parameters (json_file aside), plus the wall-clock
\* time read at construction
New(args) ==
    [author |-> args.author,
     add_note_title |-> args.create_title,
     sn_title_separator |-> LineSep,
     export_time |-> args.now,
     match_tagged |-> args.match_tagged,
     match_untagged |-> args.match_untagged,
     invert_match |-> args.invert_match,
     max_notes |-> IF args.max_notes = None THEN SysMaxsize ELSE args.max_notes[1],
     filter_tags |-> ~(args.tag_filter = None \/ args.tag_filter = Some(<<>>)),
     \* the attribute is only set when filter_tags is, and only read then
     tag_filter |-> IF args.tag_filter = None \/ args.tag_filter = Some(<<>>)
                    THEN <<>> ELSE Split(args.tag_filter[1], <<",">>),
     line_sep |-> LineSep]

---------------------------------------------------------------------------
(* SimpleNoteToEnex.match_note_logical_or                                  *)

HasTags(sn_note) == "tags" \in DOMAIN sn_note

\* Variant: a note whose tags list is empty counts as untagged.
match_note_logical_or_empty_is_untagged(obj, sn_note) ==
    IF ~(obj.filter_tags \/ obj.match_tagged \/ obj.match_untagged)
    THEN TRUE
    ELSE LET untagged == IF HasTags(sn_note) THEN sn_note.tags = <<>> ELSE TRUE
             c1 == obj.filter_tags /\ HasTags(sn_note)
                   /\ (Range(obj.tag_filter) \cap Range(sn_note.tags)) # {}
             c2 == IF obj.match_untagged /\ untagged THEN TRUE ELSE c1
             c3 == IF obj.match_tagged /\ HasTags(sn_note) THEN TRUE ELSE c2
         IN  c3 # obj.invert_match

\* Variant: no early return when no filter is active.
match_note_logical_or_no_default(obj, sn_note) ==
    LET c1 == obj.filter_tags /\ HasTags(sn_note)
              /\ (Range(obj.tag_filter) \cap Range(sn_note.tags)) # {}
        c2 == IF obj.match_untagged /\ ~HasTags(sn_note) THEN TRUE ELSE c1
        c3 == IF obj.match_tagged /\ HasTags(sn_note) THEN TRUE ELSE c2
    IN  c3 # obj.invert_match

\* Variant: match_untagged tests for the presence of tags, not their absence.
match_note_logical_or_untagged_flipped(obj, sn_note) ==
    IF ~(obj.filter_tags \/ obj.match_tagged \/ obj.match_untagged)
    THEN TRUE
    ELSE LET c1 == obj.filter_tags /\ HasTags(sn_note)
                   /\ (Range(obj.tag_filter) \cap Range(sn_note.tags)) # {}
             c2 == IF obj.match_untagged /\ HasTags(sn_note) THEN TRUE ELSE c1
             c3 == IF obj.match_tagged /\ HasTags(sn_note) THEN TRUE ELSE c2
         IN  c3 # obj.invert_match

\* Variant: match_tagged accepts without looking for the tags field.
match_note_logical_or_tagged_unguarded(obj, sn_note) ==
    IF ~(obj.filter_tags \/ obj.match_tagged \/ obj.match_untagged)
    THEN TRUE
    ELSE LET c1 == obj.filter_tags /\ HasTags(sn_note)
                   /\ (Range(obj.tag_filter) \cap Range(sn_note.tags)) # {}
             c2 == IF obj.match_untagged /\ ~HasTags(sn_note) THEN TRUE ELSE c1
             c3 == IF obj.match_tagged THEN TRUE ELSE c2
         IN  c3 # obj.invert_match

match_note_logical_or(obj, sn_note) ==
    IF ~(obj.filter_tags \/ obj.match_tagged \/ obj.match_untagged)
    THEN TRUE
    ELSE LET c0 == FALSE
             c1 == IF obj.filter_tags /\ HasTags(sn_note)
                      /\ (Range(obj.tag_filter) \cap Range(sn_note.tags)) # {}
                   THEN TRUE ELSE c0
             c2 == IF obj.match_untagged /\ ~HasTags(sn_note) THEN TRUE ELSE c1
             c3 == IF obj.match_tagged /\ HasTags(sn_note) THEN TRUE ELSE c2
         IN  c3 # obj.invert_match

---------------------------------------------------------------------------
(* SimpleNoteToEnex.cleanup_content                                        *)

\* re.sub("\A" + pattern, "", s): one leading occurrence of pattern removed
SubLeading(s, pattern) ==
    IF StartsWith(s, pattern) THEN SubSeq(s, Len(pattern) + 1, Len(s)) ELSE s

\* re.sub(pattern + "\Z", "", s): one trailing occurrence of pattern removed
SubTrailing(s, pattern) ==
    IF EndsWith(s, pattern) THEN SubSeq(s, 1, Len(s) - Len(pattern)) ELSE s

\* Variant: the whitespace is left in place.
StripWhitespace_skipped(json_content) == json_content

\* json_content.strip(), the remove_whitespace = True branch
StripWhitespace(json_content) == Strip(json_content)

cleanup_content(json_content, pattern) ==
    LET temp1 == StripWhitespace(json_content)
        temp2 == SubLeading(temp1, pattern)
    IN  SubTrailing(temp2, pattern)

---------------------------------------------------------------------------
(* SimpleNoteToEnex.convert_to_enex                                        *)

verif_none(note_property) == IF note_property = None THEN <<>> ELSE note_property[1]

\* .replace('-', '').replace(':', '').replace('.', '')
ConvertDate(d) == Remove(Remove(Remove(d, "-"), ":"), ".")

\* sn_note['creationDate'], sn_note['lastModified'], sn_note['content']:
\* a missing key raises KeyError
ConvertRaises(sn_note) ==
    \/ "creationDate" \notin DOMAIN sn_note
    \/ "lastModified" \notin DOMAIN sn_note
    \/ "content" \notin DOMAIN sn_note

EnexTags(sn_note) ==
    IF HasTags(sn_note)
    THEN [i \in 1..Len(sn_note.tags) |-> <<"<tag>", sn_note.tags[i], "</tag>", LineSep>>]
    ELSE <<>>

\* the f-string, given the cleaned-up content
EnexNote(obj, sn_note, enex_content) ==
    [title |-> IF obj.add_note_title
               THEN SplitFirst(enex_content, obj.sn_title_separator) ELSE <<>>,
     content |-> enex_content,
     created |-> ConvertDate(sn_note.creationDate),
     updated |-> ConvertDate(sn_note.lastModified),
     author |-> verif_none(obj.author),
     tags |-> EnexTags(sn_note),
     tail |-> obj.line_sep]

\* the block returned when nothing raises; enex_content is computed once
convert_to_enex(obj, sn_note) ==
    CHOOSE enex_note \in
        {EnexNote(obj, sn_note, enex_content) :
            enex_content \in {cleanup_content(verif_none(sn_note.content), obj.line_sep)}} :
        TRUE

---------------------------------------------------------------------------
(* The inputs of a run: the command line and the export file.              *)

\* two timestamps in Simple Note's format, shortened: each keeps the three
\* characters convert_to_enex removes, the fraction and the zone letter
Created == <<"2", "0", "-", "0", "1", "T", "0", ":", "0", ".", "0", "Z">>
Modified == <<"2", "0", "-", "0", "2", "T", "0", ":", "0", ".", "5", "Z">>

Full(content, tags) ==
    [content |-> content, creationDate |-> Created, lastModified |-> Modified,
     tags |-> tags]

\* the notes a run's export file is made of: a complete note, a note with a
\* null content and no tags, and notes that lack content, creationDate or
\* lastModified
NoteKinds ==
    { Full(Some(<<"H", "i", "\r", "\n", "x", "\n">>), << <<"a">>, <<"c">> >>),
      [content |-> None, creationDate |-> Created, lastModified |-> Modified],
      [creationDate |-> Created, lastModified |-> Modified, tags |-> << <<"b">> >>],
      [content |-> Some(<<"z">>), lastModified |-> Modified],
      [content |-> Some(<<"z">>), creationDate |-> Created, tags |-> << <<"A">> >>] }

\* json.load's result: None when the file is unreadable or malformed
Files ==
    {None, Some([trashedNotes |-> <<>>])}
    \cup {Some([activeNotes |-> s]) : s \in SeqsUpTo(NoteKinds, MaxNotes)}

RunArgs ==
    [author : {None, Some(<<"m", "e">>)},
     create_title : BOOLEAN,
     max_notes : {None} \cup {Some(k) : k \in (-1)..MaxCap},
     tag_filter : {None, Some(<<"a", ",", "b">>)},
     invert_match : BOOLEAN,
     match_tagged : BOOLEAN,
     match_untagged : BOOLEAN,
     now : ExportTimes]

NoLocals ==
    [idx |-> 0, nconv |-> 0, number_to_be_converted |-> 0, enex_text |-> <<>>,
     enex_file |-> None]

---------------------------------------------------------------------------
(* main() and SimpleNoteToEnex.process_file                                *)

ActiveNotes == file[1].activeNotes

Init ==
    /\ self \in {New(a) : a \in RunArgs}
    /\ file \in Files
    /\ pc = "start"
    /\ loc = NoLocals
    /\ stdout = <<>>
    /\ trace = <<>>
    /\ steps = 0
    /\ call = None

\* json.load(jfp) returns and simplenotes['activeNotes'] is there
FileLoads == IF file = None THEN FALSE ELSE "activeNotes" \in DOMAIN file[1]

\* open / json.load / simplenotes['activeNotes'] raises: main() dies
LoadFail ==
    /\ pc = "start"
    /\ ~FileLoads
    /\ pc' = "failed"
    /\ steps' = steps + 1
    /\ UNCHANGED <<self, file, loc, stdout, trace, call>>

Load ==
    /\ pc = "start"
    /\ FileLoads
    /\ loc' = [NoLocals EXCEPT !.idx = 1,
                               !.number_to_be_converted = Min(self.max_notes, Len(ActiveNotes))]
    /\ pc' = "loop"
    /\ steps' = steps + 1
    /\ UNCHANGED <<self, file, stdout, trace, call>>

InLoop == pc = "loop" /\ loc.idx <= Len(ActiveNotes)

\* the note the for loop is at
Current == ActiveNotes[loc.idx]

\* Variant: the comparison is strict.
CapReached_strict == loc.nconv > loc.number_to_be_converted

\* nconv >= number_to_be_converted
CapReached == loc.nconv >= loc.number_to_be_converted

\* Variant: the filter is not consulted.
Accepts_always == TRUE

\* self.match_note_logical_or(sn_note)
Accepts == match_note_logical_or(self, Current)

Log(step) == trace' = Append(trace, [i |-> loc.idx, step |-> step])

\* if nconv >= number_to_be_converted: break
Break ==
    /\ InLoop
    /\ CapReached
    /\ pc' = "return"
    /\ Log("break")
    /\ steps' = steps + 1
    /\ UNCHANGED <<self, file, loc, stdout, call>>

\* Variant: the loop does not move on after a rejected note.
Skip_stays ==
    /\ InLoop
    /\ ~CapReached
    /\ ~Accepts
    /\ Log("skip")
    /\ steps' = steps + 1
    /\ UNCHANGED <<self, file, pc, loc, stdout, call>>

\* the filter rejects the note
Skip ==
    /\ InLoop
    /\ ~CapReached
    /\ ~Accepts
    /\ loc' = [loc EXCEPT !.idx = @ + 1]
    /\ Log("skip")
    /\ steps' = steps + 1
    /\ UNCHANGED <<self, file, pc, stdout, call>>

\* the filter accepts the note and convert_to_enex returns its block
Convert ==
    /\ InLoop
    /\ ~CapReached
    /\ Accepts
    /\ ~ConvertRaises(Current)
    /\ loc' = [loc EXCEPT !.idx = @ + 1,
                          !.nconv = @ + 1,
                          !.enex_text = Append(@, convert_to_enex(self, Current))]
    /\ Log("convert")
    /\ steps' = steps + 1
    /\ UNCHANGED <<self, file, pc, stdout, call>>

\* Variant: the exception is caught and the note is skipped.
ConvertFail_skips ==
    /\ InLoop
    /\ ~CapReached
    /\ Accepts
    /\ ConvertRaises(Current)
    /\ loc' = [loc EXCEPT !.idx = @ + 1]
    /\ Log("raise")
    /\ steps' = steps + 1
    /\ UNCHANGED <<self, file, pc, stdout, call>>

\* the filter accepts the note and convert_to_enex raises KeyError: main() dies
ConvertFail ==
    /\ InLoop
    /\ ~CapReached
    /\ Accepts
    /\ ConvertRaises(Current)
    /\ pc' = "failed"
    /\ Log("raise")
    /\ steps' = steps + 1
    /\ UNCHANGED <<self, file, loc, stdout, call>>

\* the for loop runs out of notes
Exhausted ==
    /\ pc = "loop"
    /\ loc.idx > Len(ActiveNotes)
    /\ pc' = "return"
    /\ steps' = steps + 1
    /\ UNCHANGED <<self, file, loc, stdout, trace, call>>

\* enex_file_header + line_sep + enex_text + line_sep + enex_file_footer
Document(obj, enex_text) ==
    [header |-> <<"<en-export export-date=", obj.export_time, ">">>,
     sep1 |-> obj.line_sep,
     notes |-> enex_text,
     sep2 |-> obj.line_sep,
     footer |-> "</en-export>"]

Return ==
    /\ pc = "return"
    /\ loc' = [loc EXCEPT !.enex_file = Some(Document(self, loc.enex_text))]
    /\ pc' = "print"
    /\ steps' = steps + 1
    /\ UNCHANGED <<self, file, stdout, trace, call>>

\* print(enex_file)
PrintFile ==
    /\ pc = "print"
    /\ stdout' = Append(stdout, loc.enex_file[1])
    /\ pc' = "done"
    /\ steps' = steps + 1
    /\ UNCHANGED <<self, file, loc, trace, call>>

Next ==
    \/ LoadFail
    \/ Load
    \/ Break
    \/ Skip
    \/ Convert
    \/ ConvertFail
    \/ Exhausted
    \/ Return
    \/ PrintFile

Spec == Init /\ [][Next]_vars

---------------------------------------------------------------------------
(* One call of match_note_logical_or, on any filter settings and any note. *)

\* the characters of a --tag-filter string: two letters that differ in
\* case only, and the separator
FilterChars == {"a", "A", ","}

\* the tags a note can carry
TagNames == {<<>>, <<"a">>, <<"A">>, <<"a", "a">>}

FilterArgs ==
    [author : {None},
     create_title : {FALSE},
     max_notes : {None},
     tag_filter : {None} \cup {Some(f) : f \in SeqsUpTo(FilterChars, MaxFilterLen)},
     invert_match : BOOLEAN,
     match_tagged : BOOLEAN,
     match_untagged : BOOLEAN,
     now : ExportTimes]

FilterNotes ==
    {[content |-> None, creationDate |-> Created, lastModified |-> Modified]}
    \cup {Full(None, t) : t \in SeqsUpTo(TagNames, MaxTags)}

InitFilter ==
    /\ self \in {New(a) : a \in FilterArgs}
    /\ file = None
    /\ pc = "call"
    /\ loc = NoLocals
    /\ stdout = <<>>
    /\ trace = <<>>
    /\ steps = 0
    /\ call \in {[sn_note |-> n, ret |-> None] : n \in FilterNotes}

CallMatch ==
    /\ pc = "call"
    /\ call' = [call EXCEPT !.ret = Some(match_note_logical_or(self, call.sn_note))]
    /\ pc' = "called"
    /\ UNCHANGED <<self, file, loc, stdout, trace, steps>>

NextFilter == CallMatch

SpecFilter == InitFilter /\ [][NextFilter]_vars

---------------------------------------------------------------------------
(* cleanup_content called on a content string, and again on its result,    *)
(* the way convert_to_enex calls it: cleanup_content(c, self.line_sep,     *)
(* True).                                                                  *)

ContentChars == {"a", " ", "\r", "\n"}

DefaultArgs ==
    [author |-> None, create_title |-> FALSE, max_notes |-> None, tag_filter |-> None,
     invert_match |-> FALSE, match_tagged |-> FALSE, match_untagged |-> FALSE,
     now |-> CHOOSE t \in ExportTimes : TRUE]

InitClean ==
    /\ self = New(DefaultArgs)
    /\ file = None
    /\ pc = "clean"
    /\ loc = NoLocals
    /\ stdout = <<>>
    /\ trace = <<>>
    /\ steps = 0
    /\ call \in {[json_content |-> c, once |-> None, twice |-> None] :
                    c \in SeqsUpTo(ContentChars, MaxContentLen)}

CallCleanup ==
    /\ pc = "clean"
    /\ call' = [call EXCEPT !.once = Some(cleanup_content(call.json_content, self.line_sep))]
    /\ pc' = "cleaned"
    /\ UNCHANGED <<self, file, loc, stdout, trace, steps>>

CallCleanupAgain ==
    /\ pc = "cleaned"
    /\ call' = [call EXCEPT !.twice = Some(cleanup_content(call.once[1], self.line_sep))]
    /\ pc' = "cleaned twice"
    /\ UNCHANGED <<self, file, loc, stdout, trace, steps>>

NextClean == CallCleanup \/ CallCleanupAgain

SpecClean == InitClean /\ [][NextClean]_vars

---------------------------------------------------------------------------
(* Properties of match_note_logical_or, under SpecFilter.                  *)

Called == pc = "called"

AnyFilterActive == self.filter_tags \/ self.match_tagged \/ self.match_untagged

\* A: an allow-list is configured, the note has a tags field, and one of its
\* tags is exactly equal to an entry of the allow-list
MatchesAllowList(obj, sn_note) ==
    /\ obj.filter_tags
    /\ HasTags(sn_note)
    /\ \E i \in 1..Len(obj.tag_filter) :
           \E j \in 1..Len(sn_note.tags) : obj.tag_filter[i] = sn_note.tags[j]

\* B: require-untagged is set and the note has no tags field
MatchesUntagged(obj, sn_note) == obj.match_untagged /\ ~HasTags(sn_note)

\* C: require-tagged is set and the note has a tags field
MatchesTagged(obj, sn_note) == obj.match_tagged /\ HasTags(sn_note)

\* C1: with at least one of {allow-list, require-tagged, require-untagged}
\* active, the call returns (A or B or C) XOR invert.
C1_OrXorInvert ==
    (Called /\ AnyFilterActive) =>
        call.ret = Some((\/ MatchesAllowList(self, call.sn_note)
                         \/ MatchesUntagged(self, call.sn_note)
                         \/ MatchesTagged(self, call.sn_note)) # self.invert_match)

\* An allow-list alone, and a note whose tags differ from it in case only
\* next to one that is equal: accepted on the equal tag.
C1_Witness ==
    /\ Called
    /\ self.filter_tags /\ ~self.match_tagged /\ ~self.match_untagged
    /\ ~self.invert_match
    /\ self.tag_filter = << <<"a">> >>
    /\ HasTags(call.sn_note)
    /\ call.sn_note.tags = << <<"A">>, <<"a">> >>
    /\ call.ret = Some(TRUE)

\* C2: with no allow-list, require-tagged or require-untagged, the call
\* returns true for every note and for both values of the invert flag.
C2_NoFilterAcceptsAll ==
    (Called /\ ~AnyFilterActive) => call.ret = Some(TRUE)

\* No filter, the invert flag set, a note without tags: accepted.
C2_Witness ==
    /\ Called
    /\ ~AnyFilterActive
    /\ self.invert_match
    /\ ~HasTags(call.sn_note)
    /\ call.ret = Some(TRUE)

\* self with no match/filter at all, the other settings kept
NoFilter(obj) ==
    [obj EXCEPT !.filter_tags = FALSE, !.tag_filter = <<>>,
                !.match_tagged = FALSE, !.match_untagged = FALSE]

\* C3 as stated: require-tagged together with require-untagged accepts
\* every note, and decides as no filter at all does, the invert flag being
\* the same in both.
C3_BothFlagsAsNoFilter ==
    (Called /\ self.match_tagged /\ self.match_untagged) =>
        /\ call.ret = Some(TRUE)
        /\ call.ret = Some(match_note_logical_or(NoFilter(self), call.sn_note))

\* C3 amended: require-tagged together with require-untagged accepts every
\* note and decides as no filter does when the invert flag is off; with the
\* invert flag on it rejects every note, while no filter accepts every note.
C3_BothFlagsAsNoFilterUnlessInverted ==
    (Called /\ self.match_tagged /\ self.match_untagged) =>
        /\ call.ret = Some(~self.invert_match)
        /\ match_note_logical_or(NoFilter(self), call.sn_note)
        /\ ~self.invert_match =>
               call.ret = Some(match_note_logical_or(NoFilter(self), call.sn_note))

\* Both flags, no inversion, a note without tags: accepted.
C3_Witness ==
    /\ Called
    /\ self.match_tagged /\ self.match_untagged /\ ~self.invert_match
    /\ ~HasTags(call.sn_note)
    /\ call.ret = Some(TRUE)

---------------------------------------------------------------------------
(* Properties of cleanup_content, under SpecClean.                         *)

\* C8: content normalization is idempotent: applied to its own result, it
\* returns that result.
C8_CleanupIdempotent ==
    pc = "cleaned twice" => call.twice = call.once

\* A content with a leading separator and a trailing blank: the first call
\* removes both and the second call changes nothing.
C8_Witness ==
    /\ pc = "cleaned twice"
    /\ call.json_content = <<"\r", "\n", "a", " ">>
    /\ call.once = Some(<<"a">>)
    /\ call.twice = Some(<<"a">>)

---------------------------------------------------------------------------
(* Properties of a run of main(), under Spec.                              *)

\* process_file has read the file and entered or left its loop
Loaded == FileLoads /\ pc # "start"

Returned == pc \in {"return", "print", "done"}

N == Len(ActiveNotes)

Passes(i) == match_note_logical_or(self, ActiveNotes[i])

\* the positions among the first n active notes that pass the filter, ascending
RECURSIVE PassingUpTo(_)
PassingUpTo(n) ==
    IF n = 0 THEN <<>>
    ELSE IF Passes(n) THEN Append(PassingUpTo(n - 1), n) ELSE PassingUpTo(n - 1)

FirstK(s, k) == IF k <= 0 THEN <<>> ELSE SubSeq(s, 1, Min(k, Len(s)))

IsPrefix(s, t) == Len(s) <= Len(t) /\ s = SubSeq(t, 1, Len(s))

\* the positions convert_to_enex returned a block for, in the order of the calls
RECURSIVE ConvertedUpTo(_)
ConvertedUpTo(j) ==
    IF j = 0 THEN <<>>
    ELSE IF trace[j].step = "convert" THEN Append(ConvertedUpTo(j - 1), trace[j].i)
    ELSE ConvertedUpTo(j - 1)

ConvertedIdx == ConvertedUpTo(Len(trace))

BlocksOf(idxs) == [j \in 1..Len(idxs) |-> convert_to_enex(self, ActiveNotes[idxs[j]])]

\* C4: the run converts exactly the first k notes that pass the filter, in
\* their original order, k = min(min(max count, number of active notes),
\* number of passing notes); rejected notes neither count nor stop the loop.
\* While the loop runs the converted notes are the first ones of those k;
\* once process_file returns they are all k, and they are what is printed.
C4_FirstKPassingInOrder ==
    Loaded =>
        LET pass == PassingUpTo(N)
            k == Min(Min(self.max_notes, N), Len(pass))
            want == FirstK(pass, k)
        IN  /\ IsPrefix(ConvertedIdx, want)
            /\ loc.enex_text = BlocksOf(ConvertedIdx)
            /\ Returned => ConvertedIdx = want
            /\ pc = "done" => stdout = <<Document(self, BlocksOf(want))>>

\* Three notes that all pass, a max count of 2: the first two are printed
\* and the loop breaks at the third.
C4_Witness ==
    /\ pc = "done"
    /\ N = 3
    /\ self.max_notes = 2
    /\ PassingUpTo(N) = <<1, 2, 3>>
    /\ ConvertedIdx = <<1, 2>>
    /\ trace[3].step = "break"
    /\ Len(stdout[1].notes) = 2

\* the number of blocks converted before loop iteration j
NconvBefore(j) == Len(ConvertedUpTo(j - 1))

\* C5: every visited note gets exactly one filter outcome, and
\* convert_to_enex is invoked on a note iff that outcome is true and the cap
\* was not reached when the note was visited.
C5_ConvertIffAcceptedUnderCap ==
    Loaded =>
        /\ \A j \in 1..Len(trace) :
               LET capOpen == NconvBefore(j) < Min(self.max_notes, N)
                   invoked == trace[j].step \in {"convert", "raise"}
               IN  /\ trace[j].i = j
                   /\ (trace[j].step # "break") <=> capOpen
                   /\ invoked <=> (capOpen /\ Passes(j))
                   /\ (trace[j].step = "skip") <=> (capOpen /\ ~Passes(j))
        /\ Returned =>
               \A i \in 1..N :
                   (i \in Range(ConvertedIdx)) <=>
                       (Passes(i) /\ Len(PassingUpTo(i - 1)) < Min(self.max_notes, N))

\* A run that rejected a note, converted the next one, and stopped at the
\* cap before a third note that would pass.
C5_Witness ==
    /\ pc = "done"
    /\ N = 3
    /\ self.max_notes = 1
    /\ ~Passes(1) /\ Passes(2) /\ Passes(3)
    /\ trace = <<[i |-> 1, step |-> "skip"], [i |-> 2, step |-> "convert"],
                 [i |-> 3, step |-> "break"]>>

\* the block convert_to_enex returned in loop iteration j
BlockAt(j) == loc.enex_text[Len(ConvertedUpTo(j))]

\* C6 as stated: for an accepted note, an absent content, tags or author is
\* treated as empty and raises nothing: convert_to_enex returns a block
\* with empty content, no tag elements or an empty author, and the run goes
\* on with the next note.  (A missing timestamp is the one thing that may
\* raise.)
C6_AbsentOptionalFieldsAreEmpty ==
    Loaded =>
        \A j \in 1..Len(trace) :
            LET sn_note == ActiveNotes[j]
                hasDates == {"creationDate", "lastModified"} \subseteq DOMAIN sn_note
            IN  (trace[j].step \in {"convert", "raise"} /\ hasDates) =>
                    /\ trace[j].step = "convert"
                    /\ "content" \notin DOMAIN sn_note => BlockAt(j).content = <<>>
                    /\ "tags" \notin DOMAIN sn_note => BlockAt(j).tags = <<>>
                    /\ self.author = None => BlockAt(j).author = <<>>

\* C7: a run that fails (unreadable or malformed file, or an accepted note
\* that makes convert_to_enex raise, even after earlier notes were
\* converted) stops at that point, visits no further note and writes
\* nothing to the primary output; the output is written once, by a run in
\* which every visited note was processed without failure.
C7_FailureWritesNothing ==
    /\ (pc # "start" /\ ~FileLoads) => pc = "failed"
    /\ pc = "failed" => (stdout = <<>> /\ ~ENABLED Next)
    /\ Loaded =>
           /\ \A j \in 1..Len(trace) :
                  trace[j].step = "raise" => (j = Len(trace) /\ pc = "failed")
           /\ pc = "failed" => (trace # <<>> /\ trace[Len(trace)].step = "raise")
    /\ stdout # <<>> =>
           /\ pc = "done"
           /\ FileLoads
           /\ Len(stdout) = 1
           /\ \A j \in 1..Len(trace) : trace[j].step # "raise"
           /\ (Len(trace) = N \/ trace[Len(trace)].step = "break")

\* A run that converted its first note and died on the second, which lacks
\* a timestamp: nothing was printed.
C7_Witness ==
    /\ pc = "failed"
    /\ FileLoads
    /\ Len(trace) = 2
    /\ trace[1].step = "convert"
    /\ trace[2].step = "raise"
    /\ "creationDate" \notin DOMAIN ActiveNotes[2]
    /\ Len(loc.enex_text) = 1
    /\ stdout = <<>>

Max(a, b) == IF a > b THEN a ELSE b

\* the steps main() still has to take, at most
Remaining ==
    CASE pc = "start" -> IF FileLoads THEN N + 4 ELSE 1
      [] pc = "loop" -> (N + 1 - loc.idx) + 3
      [] pc = "return" -> 2
      [] pc = "print" -> 1
      [] OTHER -> 0

Terminated == pc \in {"done", "failed"}

\* what C10 says apart from the bound on the number of converted notes:
\* the run terminates (it is never stuck before its end, and the steps taken
\* plus the steps still to take never exceed N + 4), each note is visited
\* at most once, and a max count of 0 or less filters and converts nothing
\* and prints the header followed by the footer.
TerminatesVisitingOnce ==
    /\ Remaining >= 0
    /\ steps + Remaining <= (IF FileLoads THEN N + 4 ELSE 1)
    /\ Terminated <=> ~ENABLED Next
    /\ Loaded =>
           /\ \A j \in 1..Len(trace) : trace[j].i = j /\ j <= N
           /\ self.max_notes <= 0 =>
                  /\ \A j \in 1..Len(trace) : trace[j].step = "break"
                  /\ loc.nconv = 0
                  /\ pc = "done" => stdout = <<Document(self, <<>>)>>

\* C10 as stated: the run terminates after visiting each note at most once,
\* a max count of 0 or less converts nothing, and at every point of the loop
\* the number of converted notes is at most min(max count, number of active
\* notes).
C10_ConvertedAtMostMin ==
    /\ TerminatesVisitingOnce
    /\ Loaded => loc.nconv <= Min(self.max_notes, N)

\* C10 amended: the same, with the number of converted notes at most
\* min(max count, number of active notes), or 0 when that minimum is
\* negative.
C10_ConvertedAtMostMinOrZero ==
    /\ TerminatesVisitingOnce
    /\ Loaded => loc.nconv <= Max(0, Min(self.max_notes, N))

\* A run with a negative max count over a non-empty file: the loop broke at
\* the first note, and the header and footer were printed with no block.
C10_Witness ==
    /\ pc = "done"
    /\ self.max_notes = -1
    /\ N = 3
    /\ trace = <<[i |-> 1, step |-> "break"]>>
    /\ stdout = <<Document(self, <<>>)>>

===========================================================================
